---- MODULE Spec2Model ----
(***************************************************************************)
(* The C boundary of cczuni (src/src/ffi.rs): opaque client handles, the   *)
(* FfiResult envelope and its JSON form, the blocking operation functions  *)
(* and the string ownership protocol.  The wrapped client (SSO login, the  *)
(* Jwqywx application, the status probe) is a collaborator: each of its    *)
(* awaited calls is an input of the operation that awaits it.              *)
(***************************************************************************)
EXTENDS Integers, Sequences, FiniteSets, TLC

VARIABLES heap, texts, runtime, proc, ub, last, logins, env, wire, back,
          th, clients, builds

\* The boundary's state, and an envelope on its way through JSON.
bvars == <<heap, texts, runtime, proc, ub, last, logins>>
pvars == <<env, wire, back>>
\* Threads inside operation functions, the session each calls on, and the
\* number of runtimes built.
cvars == <<th, clients, builds>>
vars == <<heap, texts, runtime, proc, ub, last, logins, env, wire, back,
          th, clients, builds>>

(***************************************************************************)
(* Bounds of the model.                                                    *)
(***************************************************************************)
MaxHandles == 1
MaxTexts == 1
\* The longest sequence among the payloads written to JSON.
MaxLen == 2
\* The threads calling operation functions at the same time.
MaxThreads == 2

\* The null pointer; client addresses and text addresses are 1..Max.
NULL == 0
Handles == 1..MaxHandles
TextAddrs == 1..MaxTexts
Threads == 1..MaxThreads

(***************************************************************************)
(* Values.  Option<T>, Result<T, E>, the values a payload is made of, and  *)
(* the JSON values serde_json writes.                                      *)
(***************************************************************************)
None == [some |-> FALSE]
Some(x) == [some |-> TRUE, v |-> x]

Ok(x) == [ok |-> TRUE, v |-> x]
Err(e) == [ok |-> FALSE, e |-> e]

\* Payload values (the collaborator's Serialize types).
RStr(s) == [k |-> "str", s |-> s]
RU16(n) == [k |-> "u16", n |-> n]
RSeq(q) == [k |-> "seq", q |-> q]
RMap(m) == [k |-> "map", m |-> m]
\* The unit value (), the payload type of FfiResult::<()>.
RUnit == [k |-> "unit"]
\* A value whose Serialize implementation reports an error.
RFail(msg) == [k |-> "fail", msg |-> msg]

\* JSON values.
JNull == [t |-> "null"]
JBool(b) == [t |-> "bool", b |-> b]
JStr(s) == [t |-> "str", s |-> s]
JNum(n) == [t |-> "num", n |-> n]
JArr(a) == [t |-> "arr", a |-> a]
JObj(m) == [t |-> "obj", m |-> m]

\* serde's Serialize on a payload, as serde_json runs it: Ok(json) or
\* Err(message) from the first part that fails.
RECURSIVE Serialize(_)
Serialize(x) ==
    CASE x.k = "str" -> Ok(JStr(x.s))
      [] x.k = "u16" -> Ok(JNum(x.n))
      [] x.k = "seq" ->
            LET parts == [i \in DOMAIN x.q |-> Serialize(x.q[i])] IN
            IF \A i \in DOMAIN parts : parts[i].ok
            THEN Ok(JArr([i \in DOMAIN parts |-> parts[i].v]))
            ELSE parts[CHOOSE i \in DOMAIN parts :
                         /\ ~parts[i].ok
                         /\ \A j \in DOMAIN parts : j < i => parts[j].ok]
      [] x.k = "map" ->
            LET parts == [key \in DOMAIN x.m |-> Serialize(x.m[key])] IN
            IF \A key \in DOMAIN parts : parts[key].ok
            THEN Ok(JObj([key \in DOMAIN parts |-> parts[key].v]))
            ELSE parts[CHOOSE key \in DOMAIN parts : ~parts[key].ok]
      [] x.k = "unit" -> Ok(JNull)
      [] x.k = "fail" -> Err(x.msg)

(***************************************************************************)
(* FfiResult<T> and its JSON text.                                         *)
(***************************************************************************)
FfiResult_success(data) == [success |-> TRUE, data |-> Some(data), error |-> None]

\* FfiResult::error with the flag of FfiResult::success.
FfiResult_error_flag_true(msg) == [success |-> TRUE, data |-> None, error |-> Some(msg)]

FfiResult_error(msg) == [success |-> FALSE, data |-> None, error |-> Some(msg)]

\* #[derive(Serialize)] on FfiResult: the three fields in order; an Option
\* is written as null (None) or as its content (Some).
SerializeFfiResult(r) ==
    LET d == IF r.data.some THEN Serialize(r.data.v) ELSE Ok(JNull) IN
    IF d.ok
    THEN Ok([success |-> r.success,
             data |-> d.v,
             error |-> IF r.error.some THEN JStr(r.error.v) ELSE JNull])
    ELSE d

SerializationFailedPrefix == "JSON serialization failed: "

\* What a panic leaves in place of a value: .unwrap() on an Err.
Panicked == [panic |-> TRUE]

unwrap(res) == IF res.ok THEN res.v ELSE Panicked

\* to_json_string with unwrap_or_else taken out: the first serialization is
\* unwrapped.
to_json_string_unwrap(r) == unwrap(SerializeFfiResult(r))

\* serde_json::to_string(self).unwrap_or_else(|e| { ... .unwrap() })
to_json_string(r) ==
    LET first == SerializeFfiResult(r) IN
    IF first.ok
    THEN first.v
    ELSE LET error_result == FfiResult_error(SerializationFailedPrefix \o first.e)
         IN  unwrap(SerializeFfiResult(error_result))

(***************************************************************************)
(* Credentials cross the boundary as C strings: sequences of bytes.        *)
(* to_string_lossy decodes them, writing U+FFFD for a byte that is not     *)
(* valid UTF-8 (the model's texts are ASCII, so: a byte above 127).        *)
(***************************************************************************)
ReplacementChar == 65533
AsciiLimit == 128

WellFormed(bytes) == \A i \in DOMAIN bytes : bytes[i] < AsciiLimit

to_string_lossy(bytes) ==
    [i \in DOMAIN bytes |-> IF bytes[i] < AsciiLimit THEN bytes[i] ELSE ReplacementChar]

\* "u1", and a text holding the invalid byte 0xFF.
UserInputs == {<<117, 49>>, <<117, 255>>}
\* "p1"
PasswordInputs == {<<112, 49>>}

\* DefaultClient::account: a session that has not logged in anywhere.
DefaultClient_account(user, password) ==
    [user |-> user, password |-> password, sso |-> FALSE, app |-> FALSE]

NoSession == [user |-> <<>>, password |-> <<>>, sso |-> FALSE, app |-> FALSE]

(***************************************************************************)
(* logins[p] remembers how the latest login on the session at p ended:     *)
(* "never" (none yet), "failed" or "ok".  It is history, not program state.*)
(***************************************************************************)

(***************************************************************************)
(* The heap.  A client address is unallocated, live (it holds a session)   *)
(* or freed; a text address likewise.                                      *)
(***************************************************************************)
Unalloc == [state |-> "unalloc", session |-> NoSession]
Live(session) == [state |-> "live", session |-> session]
Freed == [state |-> "freed", session |-> NoSession]

is_null(p) == p = NULL

IsLive(p) == p \in Handles /\ heap[p].state = "live"
LiveHandles == {p \in Handles : heap[p].state = "live"}
FreedHandles == {p \in Handles : heap[p].state = "freed"}
LiveTexts == {s \in TextAddrs : texts[s] = "live"}
FreeTextAddrs == {s \in TextAddrs : texts[s] # "live"}
FreeHandleAddrs == {p \in Handles : heap[p].state # "live"}

\* What the caller saw of the latest call.
NoEnvelope == [success |-> FALSE, data |-> None, error |-> None]
Unwritten == [written |-> FALSE]
Unread == [read |-> FALSE]

NoJson == [success |-> FALSE, data |-> JNull, error |-> JNull]
\* fn: the function; arg: its pointer argument; returned: whether it came
\* back to the caller; ret: the pointer it returned; calls: the collaborator
\* steps it awaited, in order, each with its result (for client_new: the
\* two input texts); json: the text behind ret; note: what else happened
\* (for login: how the latest login before it on this handle had ended).
Call(fn, arg, returned, ret, calls, json, note) ==
    [fn |-> fn, arg |-> arg, returned |-> returned, ret |-> ret,
     calls |-> calls, json |-> json, note |-> note]

InitBoundary ==
    /\ heap = [p \in Handles |-> Unalloc]
    /\ texts = [s \in TextAddrs |-> "unalloc"]
    /\ runtime = "uninit"
    /\ proc = "running"
    /\ ub = {}
    /\ last = Call("none", NULL, FALSE, NULL, <<>>, NoJson, "")
    /\ logins = [p \in Handles |-> "never"]

NoRun == [calls |-> <<>>, json |-> NoJson, session |-> NoSession]
\* A thread outside every operation function: pc is where the thread is,
\* run the async block it drives, k the steps of it that have completed,
\* stalled whether the step it awaits will never complete, first whether it
\* reached RUNTIME before any runtime was ready, rt the runtime it runs on,
\* out the envelope it returned.
Idle == [pc |-> "idle", fn |-> "none", run |-> NoRun, k |-> 0, stalled |-> FALSE,
         first |-> FALSE, rt |-> 0, returned |-> FALSE, out |-> NoJson]

InitNoThreads ==
    /\ th = [t \in Threads |-> Idle]
    /\ clients = [t \in Threads |-> NoSession]
    /\ builds = 0

InitNoEnvelope ==
    /\ env = NoEnvelope
    /\ wire = Unwritten
    /\ back = Unread

Init ==
    /\ InitBoundary
    /\ InitNoEnvelope
    /\ InitNoThreads

(***************************************************************************)
(* cczuni_client_new                                                       *)
(***************************************************************************)
\* Box::new either gets memory at a free address or, when the allocator
\* fails, calls handle_alloc_error, which aborts the process.
\* The two texts handed to DefaultClient::account in the other order.
new_client_swapped(user, password) ==
    LET user_str == to_string_lossy(user)
        password_str == to_string_lossy(password)
    IN  DefaultClient_account(password_str, user_str)

\* Lines 76-79: decode both texts and build the client.
new_client(user, password) ==
    LET user_str == to_string_lossy(user)
        password_str == to_string_lossy(password)
    IN  DefaultClient_account(user_str, password_str)

cczuni_client_new(user, password, addr) ==
    /\ proc = "running"
    /\ LET client == new_client(user, password) IN
       IF is_null(addr)
       THEN /\ proc' = "aborted"
            /\ last' = Call("client_new", NULL, FALSE, NULL,
                            <<user, password>>, NoJson, "alloc_failed")
            /\ UNCHANGED <<heap, texts, runtime, ub, logins>>
       ELSE /\ heap' = [heap EXCEPT ![addr] = Live(client)]
            /\ logins' = [logins EXCEPT ![addr] = "never"]
            /\ last' = Call("client_new", NULL, TRUE, addr,
                            <<user, password>>, NoJson, "")
            /\ UNCHANGED <<texts, runtime, proc, ub>>

(***************************************************************************)
(* cczuni_client_free                                                      *)
(***************************************************************************)
\* Box::from_raw on a live address releases the session.  On an address
\* that is not live (freed before, never allocated) it is a double free:
\* undefined behaviour, here either an abort of the process or a silent
\* return with the allocator corrupted.
\* cczuni_client_free without the null check: Box::from_raw(null) is
\* undefined behaviour, taken here as the abort it is in practice.
cczuni_client_free_unchecked(client_ptr, crash) ==
    /\ proc = "running"
    /\ IF is_null(client_ptr)
       THEN /\ proc' = "aborted"
            /\ ub' = ub \cup {"free_null"}
            /\ last' = Call("client_free", client_ptr, FALSE, NULL, <<>>, NoJson, "")
            /\ UNCHANGED <<heap, texts, runtime, logins>>
       ELSE IF heap[client_ptr].state = "live"
       THEN /\ heap' = [heap EXCEPT ![client_ptr] = Freed]
            /\ last' = Call("client_free", client_ptr, TRUE, NULL, <<>>, NoJson, "")
            /\ logins' = [logins EXCEPT ![client_ptr] = "never"]
            /\ UNCHANGED <<texts, runtime, proc, ub>>
       ELSE /\ ub' = ub \cup {"double_free"}
            /\ proc' = IF crash THEN "aborted" ELSE proc
            /\ last' = Call("client_free", client_ptr, ~crash, NULL, <<>>, NoJson,
                            "double_free")
            /\ UNCHANGED <<heap, texts, runtime, logins>>

\* cczuni_client_free releasing, with the session, the texts still out.
cczuni_client_free_and_texts(client_ptr, crash) ==
    /\ proc = "running"
    /\ IF is_null(client_ptr)
       THEN /\ last' = Call("client_free", client_ptr, TRUE, NULL, <<>>, NoJson, "")
            /\ UNCHANGED <<heap, texts, runtime, proc, ub, logins>>
       ELSE IF heap[client_ptr].state = "live"
       THEN /\ heap' = [heap EXCEPT ![client_ptr] = Freed]
            /\ texts' = [s \in TextAddrs |->
                           IF texts[s] = "live" THEN "freed" ELSE texts[s]]
            /\ last' = Call("client_free", client_ptr, TRUE, NULL, <<>>, NoJson, "")
            /\ logins' = [logins EXCEPT ![client_ptr] = "never"]
            /\ UNCHANGED <<runtime, proc, ub>>
       ELSE /\ ub' = ub \cup {"double_free"}
            /\ proc' = IF crash THEN "aborted" ELSE proc
            /\ last' = Call("client_free", client_ptr, ~crash, NULL, <<>>, NoJson,
                            "double_free")
            /\ UNCHANGED <<heap, texts, runtime, logins>>

cczuni_client_free(client_ptr, crash) ==
    /\ proc = "running"
    /\ IF is_null(client_ptr)
       THEN /\ last' = Call("client_free", client_ptr, TRUE, NULL, <<>>, NoJson, "")
            /\ UNCHANGED <<heap, texts, runtime, proc, ub, logins>>
       ELSE IF heap[client_ptr].state = "live"
       THEN /\ heap' = [heap EXCEPT ![client_ptr] = Freed]
            /\ last' = Call("client_free", client_ptr, TRUE, NULL, <<>>, NoJson, "")
            /\ logins' = [logins EXCEPT ![client_ptr] = "never"]
            /\ UNCHANGED <<texts, runtime, proc, ub>>
       ELSE /\ ub' = ub \cup {"double_free"}
            /\ proc' = IF crash THEN "aborted" ELSE proc
            /\ last' = Call("client_free", client_ptr, ~crash, NULL, <<>>, NoJson,
                            "double_free")
            /\ UNCHANGED <<heap, texts, runtime, logins>>

(***************************************************************************)
(* The collaborators.  Each awaited call is a stub whose result is an      *)
(* input of the operation.                                                 *)
(***************************************************************************)
\* An error of the wrapped client and its Display text.
ErrorValues == {[msg |-> "bad app session"],
                [msg |-> "Failed to login to Jwqywx: bad app session"]}
to_string(e) == e.msg

LoginInfos == {RMap([userid |-> RStr("u1")])}

\* get_grades answers a message whose `message` field is the grade list.
GradesMessages == {[status |-> 200, message |-> RSeq(<<RStr("math:90")>>)],
                   [status |-> 200, message |-> RFail("key must be a string")]}

TermNames == {"2024-1", "2023-2"}
TermLists == {<<>>,
              <<[term |-> "2024-1"]>>,
              <<[term |-> "2024-1"], [term |-> "2023-2"]>>,
              <<[term |-> "2023-2"], [term |-> "2024-1"]>>}
TermsMessages == {[status |-> 200, message |-> q] : q \in TermLists}

\* The week matrix the collaborator builds for a term.
WeekMatrix(term) == RSeq(<<RSeq(<<RStr("week1 of " \o term)>>)>>)

ServiceNames == {"sso", "jwqywx"}
StatusCodes == {[code |-> 200], [code |-> 503]}
StatusMaps == UNION {[names -> StatusCodes] : names \in SUBSET ServiceNames}
as_u16(v) == v.code

Results(payloads) == {Ok(x) : x \in payloads} \cup {Err(e) : e \in ErrorValues}

\* What a collaborator call leaves in the session.
SsoLoginEffect(session, res) ==
    IF res.ok THEN [session EXCEPT !.sso = TRUE] ELSE session
AppLoginEffect(session, res) ==
    IF res.ok THEN [session EXCEPT !.app = TRUE] ELSE session

Step(name, arg, res) == [step |-> name, arg |-> arg, res |-> res]

(***************************************************************************)
(* The async blocks of the operations: the steps awaited, the JSON text    *)
(* and the session afterwards.                                             *)
(***************************************************************************)
AppLoginFailedPrefix == "Failed to login to Jwqywx: "
NoTermsFound == "No terms found"

\* What sso_universal_login reads from the client it is called on.
Credentials(session) == <<session.user, session.password>>

\* The login block logging in to the Jwqywx application as well.
login_async_and_app(session, res) ==
    [calls |-> <<Step("sso_universal_login", Credentials(session), res),
                 Step("app_login", "", res)>>,
     json |-> IF res.ok
              THEN to_json_string(FfiResult_success(res.v))
              ELSE to_json_string(FfiResult_error(to_string(res.e))),
     session |-> AppLoginEffect(SsoLoginEffect(session, res), res)]

\* The login block with the collaborator's error text dropped.
login_async_no_message(session, res) ==
    [calls |-> <<Step("sso_universal_login", Credentials(session), res)>>,
     json |-> IF res.ok
              THEN to_json_string(FfiResult_success(res.v))
              ELSE to_json_string(FfiResult_error("")),
     session |-> SsoLoginEffect(session, res)]

login_async(session, res) ==
    [calls |-> <<Step("sso_universal_login", Credentials(session), res)>>,
     json |-> IF res.ok
              THEN to_json_string(FfiResult_success(res.v))
              ELSE to_json_string(FfiResult_error(to_string(res.e))),
     session |-> SsoLoginEffect(session, res)]

\* The grades block without the early return after a failed app login.
get_grades_async_no_return(session, loginRes, gradesRes) ==
    [calls |-> <<Step("app_login", "", loginRes),
                 Step("get_grades", "", gradesRes)>>,
     json |-> IF gradesRes.ok
              THEN to_json_string(FfiResult_success(gradesRes.v.message))
              ELSE to_json_string(FfiResult_error(to_string(gradesRes.e))),
     session |-> AppLoginEffect(session, loginRes)]

\* The grades block refusing a session that has not logged in to the SSO.
get_grades_async_needs_sso(session, loginRes, gradesRes) ==
    IF ~session.sso
    THEN [calls |-> <<>>,
          json |-> to_json_string(FfiResult_error("not logged in")),
          session |-> session]
    ELSE IF ~loginRes.ok
    THEN [calls |-> <<Step("app_login", "", loginRes)>>,
          json |-> to_json_string(
                     FfiResult_error(AppLoginFailedPrefix \o to_string(loginRes.e))),
          session |-> AppLoginEffect(session, loginRes)]
    ELSE [calls |-> <<Step("app_login", "", loginRes),
                      Step("get_grades", "", gradesRes)>>,
          json |-> IF gradesRes.ok
                   THEN to_json_string(FfiResult_success(gradesRes.v.message))
                   ELSE to_json_string(FfiResult_error(to_string(gradesRes.e))),
          session |-> AppLoginEffect(session, loginRes)]

get_grades_async(session, loginRes, gradesRes) ==
    IF ~loginRes.ok
    THEN [calls |-> <<Step("app_login", "", loginRes)>>,
          json |-> to_json_string(
                     FfiResult_error(AppLoginFailedPrefix \o to_string(loginRes.e))),
          session |-> AppLoginEffect(session, loginRes)]
    ELSE [calls |-> <<Step("app_login", "", loginRes),
                      Step("get_grades", "", gradesRes)>>,
          json |-> IF gradesRes.ok
                   THEN to_json_string(FfiResult_success(gradesRes.v.message))
                   ELSE to_json_string(FfiResult_error(to_string(gradesRes.e))),
          session |-> AppLoginEffect(session, loginRes)]

\* matrixErr: None when the matrix fetch answers, Some(e) when it fails.
get_term_classinfo_week_matrix(term, matrixErr) ==
    IF matrixErr.some THEN Err(matrixErr.v) ELSE Ok(WeekMatrix(term))

\* The schedule block answering an empty term list with an empty success.
get_schedule_async_empty_ok(session, loginRes, termsRes, matrixErr) ==
    IF ~loginRes.ok
    THEN [calls |-> <<Step("app_login", "", loginRes)>>,
          json |-> to_json_string(
                     FfiResult_error(AppLoginFailedPrefix \o to_string(loginRes.e))),
          session |-> AppLoginEffect(session, loginRes)]
    ELSE IF ~termsRes.ok
    THEN [calls |-> <<Step("app_login", "", loginRes), Step("terms", "", termsRes)>>,
          json |-> to_json_string(FfiResult_error(to_string(termsRes.e))),
          session |-> AppLoginEffect(session, loginRes)]
    ELSE IF termsRes.v.message = <<>>
    THEN [calls |-> <<Step("app_login", "", loginRes), Step("terms", "", termsRes)>>,
          json |-> to_json_string(FfiResult_success(RSeq(<<>>))),
          session |-> AppLoginEffect(session, loginRes)]
    ELSE LET current_term == Head(termsRes.v.message)
             matrixRes == get_term_classinfo_week_matrix(current_term.term, matrixErr)
         IN  [calls |-> <<Step("app_login", "", loginRes),
                          Step("terms", "", termsRes),
                          Step("get_term_classinfo_week_matrix",
                               current_term.term, matrixRes)>>,
              json |-> IF matrixRes.ok
                       THEN to_json_string(FfiResult_success(matrixRes.v))
                       ELSE to_json_string(FfiResult_error(to_string(matrixRes.e))),
              session |-> AppLoginEffect(session, loginRes)]

\* The schedule block unwrapping the first term: a panic when there is none.
get_schedule_async_unwrap_first(session, loginRes, termsRes, matrixErr) ==
    IF ~loginRes.ok
    THEN [calls |-> <<Step("app_login", "", loginRes)>>,
          json |-> to_json_string(
                     FfiResult_error(AppLoginFailedPrefix \o to_string(loginRes.e))),
          session |-> AppLoginEffect(session, loginRes)]
    ELSE IF ~termsRes.ok
    THEN [calls |-> <<Step("app_login", "", loginRes), Step("terms", "", termsRes)>>,
          json |-> to_json_string(FfiResult_error(to_string(termsRes.e))),
          session |-> AppLoginEffect(session, loginRes)]
    ELSE IF termsRes.v.message = <<>>
    THEN [calls |-> <<Step("app_login", "", loginRes), Step("terms", "", termsRes)>>,
          json |-> Panicked,
          session |-> AppLoginEffect(session, loginRes)]
    ELSE LET current_term == Head(termsRes.v.message)
             matrixRes == get_term_classinfo_week_matrix(current_term.term, matrixErr)
         IN  [calls |-> <<Step("app_login", "", loginRes),
                          Step("terms", "", termsRes),
                          Step("get_term_classinfo_week_matrix",
                               current_term.term, matrixRes)>>,
              json |-> IF matrixRes.ok
                       THEN to_json_string(FfiResult_success(matrixRes.v))
                       ELSE to_json_string(FfiResult_error(to_string(matrixRes.e))),
              session |-> AppLoginEffect(session, loginRes)]

\* The schedule block taking the last discovered term, not the first.
get_schedule_async_last_term(session, loginRes, termsRes, matrixErr) ==
    IF ~loginRes.ok
    THEN [calls |-> <<Step("app_login", "", loginRes)>>,
          json |-> to_json_string(
                     FfiResult_error(AppLoginFailedPrefix \o to_string(loginRes.e))),
          session |-> AppLoginEffect(session, loginRes)]
    ELSE IF ~termsRes.ok
    THEN [calls |-> <<Step("app_login", "", loginRes), Step("terms", "", termsRes)>>,
          json |-> to_json_string(FfiResult_error(to_string(termsRes.e))),
          session |-> AppLoginEffect(session, loginRes)]
    ELSE IF termsRes.v.message = <<>>
    THEN [calls |-> <<Step("app_login", "", loginRes), Step("terms", "", termsRes)>>,
          json |-> to_json_string(FfiResult_error(NoTermsFound)),
          session |-> AppLoginEffect(session, loginRes)]
    ELSE LET current_term == termsRes.v.message[Len(termsRes.v.message)]
             matrixRes == get_term_classinfo_week_matrix(current_term.term, matrixErr)
         IN  [calls |-> <<Step("app_login", "", loginRes),
                          Step("terms", "", termsRes),
                          Step("get_term_classinfo_week_matrix",
                               current_term.term, matrixRes)>>,
              json |-> IF matrixRes.ok
                       THEN to_json_string(FfiResult_success(matrixRes.v))
                       ELSE to_json_string(FfiResult_error(to_string(matrixRes.e))),
              session |-> AppLoginEffect(session, loginRes)]

get_schedule_async(session, loginRes, termsRes, matrixErr) ==
    IF ~loginRes.ok
    THEN [calls |-> <<Step("app_login", "", loginRes)>>,
          json |-> to_json_string(
                     FfiResult_error(AppLoginFailedPrefix \o to_string(loginRes.e))),
          session |-> AppLoginEffect(session, loginRes)]
    ELSE IF ~termsRes.ok
    THEN [calls |-> <<Step("app_login", "", loginRes), Step("terms", "", termsRes)>>,
          json |-> to_json_string(FfiResult_error(to_string(termsRes.e))),
          session |-> AppLoginEffect(session, loginRes)]
    ELSE IF termsRes.v.message = <<>>
    THEN [calls |-> <<Step("app_login", "", loginRes), Step("terms", "", termsRes)>>,
          json |-> to_json_string(FfiResult_error(NoTermsFound)),
          session |-> AppLoginEffect(session, loginRes)]
    ELSE LET current_term == Head(termsRes.v.message)
             matrixRes == get_term_classinfo_week_matrix(current_term.term, matrixErr)
         IN  [calls |-> <<Step("app_login", "", loginRes),
                          Step("terms", "", termsRes),
                          Step("get_term_classinfo_week_matrix",
                               current_term.term, matrixRes)>>,
              json |-> IF matrixRes.ok
                       THEN to_json_string(FfiResult_success(matrixRes.v))
                       ELSE to_json_string(FfiResult_error(to_string(matrixRes.e))),
              session |-> AppLoginEffect(session, loginRes)]

\* The status block giving every service the code of one of them.
get_services_status_async_one_code(status_map) ==
    LET one == IF DOMAIN status_map = {}
               THEN 0
               ELSE as_u16(status_map[CHOOSE k \in DOMAIN status_map : TRUE])
        serializable_map == [k \in DOMAIN status_map |-> RU16(one)]
    IN  [calls |-> <<Step("services_status_code", "", Ok(status_map))>>,
         json |-> to_json_string(FfiResult_success(RMap(serializable_map)))]

get_services_status_async(status_map) ==
    LET serializable_map == [k \in DOMAIN status_map |-> RU16(as_u16(status_map[k]))]
    IN  [calls |-> <<Step("services_status_code", "", Ok(status_map))>>,
         json |-> to_json_string(FfiResult_success(RMap(serializable_map)))]

(***************************************************************************)
(* The operation functions.                                                *)
(***************************************************************************)
\* RUNTIME is a Lazy: the first block_on builds the runtime; a failed build
\* panics in `expect`, and a panic cannot leave an extern "C" function: the
\* process aborts.
RuntimeChoices == IF runtime = "uninit" THEN BOOLEAN ELSE {TRUE}

\* The session a function reads through client_ptr.
Deref(client_ptr) == IF IsLive(client_ptr) THEN heap[client_ptr].session ELSE NoSession

\* The frame shared by cczuni_login, cczuni_get_grades and
\* cczuni_get_schedule: `&*client_ptr`, RUNTIME.block_on(async block),
\* CString::new(result_json).unwrap().into_raw() at text address s.
\* CString::new fails only on an interior NUL byte, which JSON text never
\* holds (serde_json escapes it), so its unwrap does not panic.  A call needs
\* a free text address: the model's memory holds MaxTexts texts.
\* client_ptr is not checked.  When it does not point to a live session the
\* read is undefined behaviour: the process aborts (crash), or the call runs
\* on whatever the memory holds and returns.
OnClient(fn, client_ptr, run, rtOk, s, crash, note) ==
    /\ proc = "running"
    /\ s \in FreeTextAddrs
    /\ IF ~IsLive(client_ptr)
       THEN /\ ub' = ub \cup {"use_after_free"}
            /\ IF crash
               THEN /\ proc' = "aborted"
                    /\ last' = Call(fn, client_ptr, FALSE, NULL, <<>>, NoJson,
                                    "use_after_free")
                    /\ UNCHANGED <<heap, texts, runtime, logins>>
               ELSE /\ texts' = [texts EXCEPT ![s] = "live"]
                    /\ runtime' = "ready"
                    /\ last' = Call(fn, client_ptr, TRUE, s, run.calls, run.json,
                                    "use_after_free")
                    /\ UNCHANGED <<heap, proc, logins>>
       ELSE IF ~rtOk
       THEN /\ proc' = "aborted"
            /\ last' = Call(fn, client_ptr, FALSE, NULL, <<>>, NoJson,
                            "runtime_build_failed")
            /\ UNCHANGED <<heap, texts, runtime, ub, logins>>
       ELSE IF run.json = Panicked
       THEN /\ proc' = "aborted"
            /\ runtime' = "ready"
            /\ last' = Call(fn, client_ptr, FALSE, NULL, run.calls, NoJson, "panic")
            /\ heap' = [heap EXCEPT ![client_ptr] = Live(run.session)]
            /\ UNCHANGED <<texts, ub, logins>>
       ELSE /\ heap' = [heap EXCEPT ![client_ptr] = Live(run.session)]
            /\ texts' = [texts EXCEPT ![s] = "live"]
            /\ runtime' = "ready"
            /\ last' = Call(fn, client_ptr, TRUE, s, run.calls, run.json, note)
            /\ logins' = IF fn = "login"
                         THEN [logins EXCEPT ![client_ptr] =
                                 IF run.calls[1].res.ok THEN "ok" ELSE "failed"]
                         ELSE logins
            /\ UNCHANGED <<proc, ub>>

\* note: how the latest login before this one on the handle had ended.
cczuni_login(client_ptr, res, rtOk, s, crash) ==
    OnClient("login", client_ptr, login_async(Deref(client_ptr), res),
             rtOk, s, crash,
             IF IsLive(client_ptr) THEN logins[client_ptr] ELSE "")

cczuni_get_grades(client_ptr, loginRes, gradesRes, rtOk, s, crash) ==
    OnClient("get_grades", client_ptr,
             get_grades_async(Deref(client_ptr), loginRes, gradesRes),
             rtOk, s, crash, "")

\* note: whether the matrix stub was set to answer or to fail, awaited or not.
cczuni_get_schedule(client_ptr, loginRes, termsRes, matrixErr, rtOk, s, crash) ==
    OnClient("get_schedule", client_ptr,
             get_schedule_async(Deref(client_ptr), loginRes, termsRes, matrixErr),
             rtOk, s, crash,
             IF matrixErr.some THEN "matrix_would_fail" ELSE "matrix_would_answer")

cczuni_get_services_status(status_map, rtOk, s) ==
    /\ proc = "running"
    /\ s \in FreeTextAddrs
    /\ IF ~rtOk
       THEN /\ proc' = "aborted"
            /\ last' = Call("get_services_status", NULL, FALSE, NULL, <<>>, NoJson,
                            "runtime_build_failed")
            /\ UNCHANGED <<heap, texts, runtime, ub, logins>>
       ELSE LET run == get_services_status_async(status_map) IN
            IF run.json = Panicked
            THEN /\ proc' = "aborted"
                 /\ runtime' = "ready"
                 /\ last' = Call("get_services_status", NULL, FALSE, NULL, run.calls,
                                 NoJson, "panic")
                 /\ UNCHANGED <<heap, texts, ub, logins>>
            ELSE
            /\ texts' = [texts EXCEPT ![s] = "live"]
            /\ runtime' = "ready"
            /\ last' = Call("get_services_status", NULL, TRUE, s, run.calls,
                            run.json, "")
            /\ UNCHANGED <<heap, proc, ub, logins>>

(***************************************************************************)
(* cczuni_free_string                                                      *)
(***************************************************************************)
\* CString::from_raw on a live text releases it; on a text that is not live
\* it is a double free (undefined behaviour, as for cczuni_client_free).
cczuni_free_string(string_ptr, crash) ==
    /\ proc = "running"
    /\ IF is_null(string_ptr)
       THEN /\ last' = Call("free_string", string_ptr, TRUE, NULL, <<>>, NoJson, "")
            /\ UNCHANGED <<heap, texts, runtime, proc, ub, logins>>
       ELSE IF texts[string_ptr] = "live"
       THEN /\ texts' = [texts EXCEPT ![string_ptr] = "freed"]
            /\ last' = Call("free_string", string_ptr, TRUE, NULL, <<>>, NoJson, "")
            /\ UNCHANGED <<heap, runtime, proc, ub, logins>>
       ELSE /\ ub' = ub \cup {"double_free"}
            /\ proc' = IF crash THEN "aborted" ELSE proc
            /\ last' = Call("free_string", string_ptr, ~crash, NULL, <<>>, NoJson,
                            "double_free")
            /\ UNCHANGED <<heap, texts, runtime, logins>>

(***************************************************************************)
(* The callers.  Spec: a caller that keeps the ownership rules (it passes  *)
(* live handles and live texts, or null to the two release functions).     *)
(* SpecMisuse: a caller that also passes handles it has freed.             *)
(***************************************************************************)
NewClient ==
    /\ \E user \in UserInputs, password \in PasswordInputs,
          addr \in FreeHandleAddrs \cup {NULL} :
          cczuni_client_new(user, password, addr)
    /\ UNCHANGED <<pvars, cvars>>

FreeClient ==
    /\ \E p \in LiveHandles \cup {NULL} : cczuni_client_free(p, FALSE)
    /\ UNCHANGED <<pvars, cvars>>

Login ==
    /\ \E p \in LiveHandles, res \in Results(LoginInfos), rtOk \in RuntimeChoices,
          s \in TextAddrs :
          cczuni_login(p, res, rtOk, s, FALSE)
    /\ UNCHANGED <<pvars, cvars>>

\* A step that is not awaited has no outcome to choose.
NotAwaited == Err(CHOOSE e \in ErrorValues : TRUE)

GetGrades ==
    /\ \E p \in LiveHandles, loginRes \in Results({"unit"}) :
       \E gradesRes \in IF loginRes.ok THEN Results(GradesMessages) ELSE {NotAwaited},
          rtOk \in RuntimeChoices, s \in TextAddrs :
          cczuni_get_grades(p, loginRes, gradesRes, rtOk, s, FALSE)
    /\ UNCHANGED <<pvars, cvars>>

GetSchedule ==
    /\ \E p \in LiveHandles, loginRes \in Results({"unit"}) :
       \E termsRes \in IF loginRes.ok THEN Results(TermsMessages) ELSE {NotAwaited} :
       \E matrixErr \in IF termsRes.ok
                        THEN {None} \cup {Some(e) : e \in ErrorValues}
                        ELSE {None},
          rtOk \in RuntimeChoices, s \in TextAddrs :
          cczuni_get_schedule(p, loginRes, termsRes, matrixErr, rtOk, s, FALSE)
    /\ UNCHANGED <<pvars, cvars>>

GetServicesStatus ==
    /\ \E status_map \in StatusMaps, rtOk \in RuntimeChoices, s \in TextAddrs :
          cczuni_get_services_status(status_map, rtOk, s)
    /\ UNCHANGED <<pvars, cvars>>

FreeString ==
    /\ \E s \in LiveTexts \cup {NULL} : cczuni_free_string(s, FALSE)
    /\ UNCHANGED <<pvars, cvars>>

Next ==
    \/ NewClient
    \/ FreeClient
    \/ Login
    \/ GetGrades
    \/ GetSchedule
    \/ GetServicesStatus
    \/ FreeString

Spec == Init /\ [][Next]_vars

\* The same operations on a handle the caller has already freed.
UseAfterFree ==
    /\ \E p \in FreedHandles, crash \in BOOLEAN, s \in TextAddrs :
          \/ cczuni_login(p, Ok(CHOOSE x \in LoginInfos : TRUE), TRUE, s, crash)
          \/ cczuni_get_grades(p, Err(CHOOSE e \in ErrorValues : TRUE),
                               Err(CHOOSE e \in ErrorValues : TRUE), TRUE, s, crash)
          \/ cczuni_get_schedule(p, Err(CHOOSE e \in ErrorValues : TRUE),
                                 Err(CHOOSE e \in ErrorValues : TRUE), None, TRUE, s, crash)
          \/ cczuni_client_free(p, crash)
    /\ UNCHANGED <<pvars, cvars>>

NextMisuse == Next \/ UseAfterFree

SpecMisuse == Init /\ [][NextMisuse]_vars

(***************************************************************************)
(* Properties.                                                             *)
(***************************************************************************)
ReturnedText ==
    /\ last.fn \in {"login", "get_grades", "get_schedule", "get_services_status"}
    /\ last.returned

HasPrefix(text, prefix) ==
    /\ Len(text) >= Len(prefix)
    /\ SubSeq(text, 1, Len(prefix)) = prefix

GradesChain == <<"app_login", "get_grades">>
ScheduleChain == <<"app_login", "terms", "get_term_classinfo_week_matrix">>

\* A step fails when the collaborator reports an error; term discovery also
\* fails when it finds no term.
StepFailed(c) ==
    \/ ~c.res.ok
    \/ c.step = "terms" /\ c.res.v.message = <<>>

\* The error text of a failed step.
StepError(c) ==
    IF ~c.res.ok
    THEN IF c.step = "app_login"
         THEN "Failed to login to Jwqywx: " \o c.res.e.msg
         ELSE c.res.e.msg
    ELSE "No terms found"

\* C1: get_grades and get_schedule await exactly the steps of their chain up
\* to the first failing one, report that step's error, and report success
\* only when every step of the chain succeeded.
C1_ChainStopsAtFirstFailure ==
    (last.fn \in {"get_grades", "get_schedule"} /\ last.returned) =>
        LET chain == IF last.fn = "get_grades" THEN GradesChain ELSE ScheduleChain
            calls == last.calls
            n == Len(calls)
        IN  /\ n \in 1..Len(chain)
            /\ \A i \in 1..n : calls[i].step = chain[i]
            /\ \A i \in 1..(n - 1) : ~StepFailed(calls[i])
            /\ n < Len(chain) => StepFailed(calls[n])
            /\ StepFailed(calls[n]) =>
                 /\ ~last.json.success
                 /\ last.json.data = JNull
                 /\ last.json.error = JStr(StepError(calls[n]))
            /\ last.json.success =>
                 /\ n = Len(chain)
                 /\ \A i \in 1..n : ~StepFailed(calls[i])

\* get_schedule stopped at a failed term discovery, after a successful app login.
C1_Witness ==
    /\ last.fn = "get_schedule"
    /\ last.returned
    /\ Len(last.calls) = 2
    /\ last.calls[1].res.ok
    /\ ~last.calls[2].res.ok
    /\ last.note = "matrix_would_answer"
    /\ last.json.error = JStr(last.calls[2].res.e.msg)

\* C2: every envelope an operation returns has exactly one of data and error
\* non-null, and success tells which.
C2_EnvelopeWellFormed ==
    ReturnedText =>
        /\ (last.json.data # JNull) # (last.json.error # JNull)
        /\ last.json.success = (last.json.data # JNull)
        /\ (~last.json.success) = (last.json.error # JNull)

\* The serialization fallback: every step succeeded and the payload could
\* not be written.
C2_Witness ==
    /\ last.fn = "get_grades"
    /\ last.returned
    /\ Len(last.calls) = 2
    /\ last.calls[2].res.ok
    /\ ~last.json.success
    /\ last.json.error # JNull
    /\ last.json.data = JNull

\* C3: a failed app login with message m is reported as
\* "Failed to login to Jwqywx: " followed by m, and no failed data fetch is
\* reported with a text that starts that way.
C3_AppLoginErrorDistinct ==
    (last.fn \in {"get_grades", "get_schedule"} /\ last.returned) =>
        LET c == last.calls[Len(last.calls)] IN
        /\ (c.step = "app_login" /\ ~c.res.ok) =>
              last.json.error = JStr("Failed to login to Jwqywx: " \o c.res.e.msg)
        /\ (c.step # "app_login" /\ StepFailed(c)) =>
              ~HasPrefix(last.json.error.s, "Failed to login to Jwqywx: ")

\* C4 as stated: empty term discovery is reported as "no terms found".
C4_NoTermsFoundLowercase ==
    (/\ last.fn = "get_schedule"
     /\ last.returned
     /\ Len(last.calls) >= 2
     /\ last.calls[2].res.ok
     /\ last.calls[2].res.v.message = <<>>) =>
        /\ last.json = [success |-> FALSE, data |-> JNull,
                        error |-> JStr("no terms found")]
        /\ Len(last.calls) = 2

\* C4 (amended): when the app login succeeds and term discovery answers an
\* empty sequence, get_schedule returns the error envelope with the message
\* "No terms found" and does not await the week-matrix fetch, whether that
\* fetch would have answered or failed.
C4_NoTermsFound ==
    (/\ last.fn = "get_schedule"
     /\ last.returned
     /\ Len(last.calls) >= 2
     /\ last.calls[2].res.ok
     /\ last.calls[2].res.v.message = <<>>) =>
        /\ last.json = [success |-> FALSE, data |-> JNull,
                        error |-> JStr("No terms found")]
        /\ Len(last.calls) = 2
        /\ \A i \in 1..Len(last.calls) :
              last.calls[i].step # "get_term_classinfo_week_matrix"

\* Empty term discovery while the matrix fetch was set to answer.
C4_Witness ==
    /\ last.fn = "get_schedule"
    /\ last.returned
    /\ Len(last.calls) = 2
    /\ last.calls[1].res.ok
    /\ last.calls[2].res.ok
    /\ last.calls[2].res.v.message = <<>>
    /\ last.note = "matrix_would_answer"

\* C5: a login whose SSO collaborator fails returns success = false with a
\* non-empty error text, and leaves the handle live and its session as it
\* was; a later login on the handle is taken like any other.
C5_LoginFailureLeavesHandle ==
    [][(/\ last'.fn = "login"
        /\ last'.returned
        /\ ~last'.calls[1].res.ok) =>
           /\ ~last'.json.success
           /\ last'.json.data = JNull
           /\ last'.json.error.t = "str"
           /\ Len(last'.json.error.s) > 0
           /\ last'.arg \in Handles
           /\ heap'[last'.arg].state = "live"
           /\ heap' = heap
           /\ proc' = "running"
           /\ ub' = {}]_vars

\* A login that succeeded on a handle whose login before it had failed.
C5_Witness ==
    /\ last.fn = "login"
    /\ last.returned
    /\ last.note = "failed"
    /\ last.json.success
    /\ IsLive(last.arg)
    /\ heap[last.arg].session.sso

\* C6: a call on a handle that free_client has released never reads or
\* releases the released session: no undefined behaviour happens and the
\* process keeps running.
C6_UseAfterFreeIsSafe ==
    /\ ub = {}
    /\ proc = "aborted" => last.note \in {"alloc_failed", "runtime_build_failed"}

\* C7: free_client(null) and free_text(null) return and change nothing: no
\* handle, no text, not the runtime, not the process.
C7_FreeNullIsNoOp ==
    [][(/\ last'.fn \in {"client_free", "free_string"}
        /\ last'.arg = NULL) =>
           /\ last'.returned
           /\ UNCHANGED <<heap, texts, runtime, proc, ub, logins>>]_vars

\* free_client(null) called while a handle is live and a text is outstanding.
C7_Witness ==
    /\ last.fn = "client_free"
    /\ last.arg = NULL
    /\ last.returned
    /\ LiveHandles # {}
    /\ LiveTexts # {}

\* C8: when the allocation succeeds, create_client on well-formed texts
\* returns a non-null handle to a live session that holds exactly these
\* credentials and has logged in nowhere; free_client on a live handle
\* returns with the session released, the process running and no undefined
\* behaviour.
C8_CreateThenFree ==
    /\ (/\ last.fn = "client_new"
        /\ last.note # "alloc_failed"
        /\ WellFormed(last.calls[1])
        /\ WellFormed(last.calls[2])) =>
           /\ last.returned
           /\ last.ret # NULL
           /\ last.ret \in Handles
           /\ heap[last.ret] = [state |-> "live",
                                session |-> [user |-> last.calls[1],
                                             password |-> last.calls[2],
                                             sso |-> FALSE,
                                             app |-> FALSE]]
    /\ (last.fn = "client_free" /\ last.arg # NULL) =>
           /\ last.returned
           /\ heap[last.arg].state = "freed"
           /\ proc = "running"
           /\ ub = {}

\* A handle has been created and then freed.
C8_Witness ==
    /\ last.fn = "client_free"
    /\ last.arg # NULL
    /\ last.returned
    /\ heap[last.arg].state = "freed"
    /\ proc = "running"

\* C9: when the allocation of the session fails, create_client returns the
\* null handle and the process keeps running.
C9_AllocationFailureReturnsNull ==
    (last.fn = "client_new" /\ last.note = "alloc_failed") =>
        /\ last.returned
        /\ last.ret = NULL
        /\ proc = "running"

\* C10: get_services_status, when it returns, returns a success envelope
\* whose data is an object with exactly the probed service names, each with
\* the number of the status code probed for it.
C10_StatusMapExact ==
    (last.fn = "get_services_status" /\ last.returned) =>
        LET probed == last.calls[1].res.v IN
        /\ last.json.success
        /\ last.json.error = JNull
        /\ last.json.data.t = "obj"
        /\ DOMAIN last.json.data.m = DOMAIN probed
        /\ \A k \in DOMAIN probed :
              last.json.data.m[k] = [t |-> "num", n |-> probed[k].code]

\* Two services probed with different codes.
C10_Witness ==
    /\ last.fn = "get_services_status"
    /\ last.returned
    /\ DOMAIN last.json.data.m = {"sso", "jwqywx"}
    /\ last.json.data.m["sso"] = [t |-> "num", n |-> 200]
    /\ last.json.data.m["jwqywx"] = [t |-> "num", n |-> 503]

\* The envelope a chain of sub-application steps determines: the error of
\* its last step when that step failed, else the payload the last step
\* fetched (or the report that the payload could not be written).
EnvelopeOfSteps(calls) ==
    LET c == calls[Len(calls)] IN
    IF StepFailed(c)
    THEN [success |-> FALSE, data |-> JNull, error |-> JStr(StepError(c))]
    ELSE LET payload == IF c.step = "get_grades" THEN c.res.v.message ELSE c.res.v
             written == Serialize(payload)
         IN  IF written.ok
             THEN [success |-> TRUE, data |-> written.v, error |-> JNull]
             ELSE [success |-> FALSE, data |-> JNull,
                   error |-> JStr("JSON serialization failed: " \o written.e)]

C15_LoginIsOneSsoCall ==
    (last.fn = "login" /\ last.returned) =>
        LET c == last.calls[1]
            session == heap[last.arg].session
        IN  /\ Len(last.calls) = 1
            /\ c.step = "sso_universal_login"
            /\ c.arg = <<session.user, session.password>>
            /\ c.arg \in {<<to_string_lossy(u), to_string_lossy(p)>> :
                            u \in UserInputs, p \in PasswordInputs}
            /\ last.json.success <=> c.res.ok
            /\ c.res.ok => /\ last.json.data = Serialize(c.res.v).v
                           /\ last.json.error = JNull
            /\ ~c.res.ok => /\ last.json.data = JNull
                            /\ last.json.error = JStr(c.res.e.msg)

\* A login that succeeded, on the handle created with "u1" and "p1".
C15_Witness ==
    /\ last.fn = "login"
    /\ last.returned
    /\ last.json.success
    /\ last.calls[1].arg = <<(<<117, 49>>), (<<112, 49>>)>>
    /\ heap[last.arg].session.sso

\* C16: in get_schedule, when the app login succeeds and term discovery
\* returns a non-empty sequence, the week-matrix fetch is awaited exactly
\* once, for the first term of the sequence in the collaborator's order, and
\* a success envelope carries the matrix fetched for that term.
C16_FirstTermOnly ==
    (/\ last.fn = "get_schedule"
     /\ last.returned
     /\ Len(last.calls) >= 2
     /\ last.calls[2].res.ok
     /\ last.calls[2].res.v.message # <<>>) =>
        LET terms == last.calls[2].res.v.message
            fetches == {i \in DOMAIN last.calls :
                          last.calls[i].step = "get_term_classinfo_week_matrix"}
        IN  /\ Cardinality(fetches) = 1
            /\ \A i \in fetches :
                  /\ last.calls[i].arg = terms[1].term
                  /\ last.calls[i].res.ok <=> last.json.success
                  /\ last.json.success =>
                        last.json.data = Serialize(WeekMatrix(terms[1].term)).v

\* Two terms discovered, the older one first: its matrix is the one returned.
C16_Witness ==
    /\ last.fn = "get_schedule"
    /\ last.returned
    /\ Len(last.calls) = 3
    /\ last.calls[2].res.v.message = <<[term |-> "2023-2"], [term |-> "2024-1"]>>
    /\ last.calls[3].arg = "2023-2"
    /\ last.json.success
    /\ last.json.data = Serialize(WeekMatrix("2023-2")).v

(***************************************************************************)
(* An envelope written to JSON text and read back.  to_json_string gives   *)
(* the document; json_text is the document as serde_json writes it, with   *)
(* every string escaped; from_json is a reader of that text into           *)
(* FfiResult<T>.                                                           *)
(***************************************************************************)
\* escape without the case of the backslash.
RECURSIVE escape_quote_only(_)
escape_quote_only(s) ==
    IF s = "" THEN ""
    ELSE LET c == SubSeq(s, 1, 1) IN
         (IF c = "\"" THEN "\\\""
          ELSE IF c = "\n" THEN "\\n"
          ELSE c) \o escape_quote_only(SubSeq(s, 2, Len(s)))

\* serde_json's string escaping: a quote, a backslash and a newline are
\* written as a backslash and a character.
RECURSIVE escape(_)
escape(s) ==
    IF s = "" THEN ""
    ELSE LET c == SubSeq(s, 1, 1) IN
         (IF c = "\"" THEN "\\\""
          ELSE IF c = "\\" THEN "\\\\"
          ELSE IF c = "\n" THEN "\\n"
          ELSE c) \o escape(SubSeq(s, 2, Len(s)))

RECURSIVE unescape(_)
unescape(t) ==
    IF t = "" THEN ""
    ELSE IF SubSeq(t, 1, 1) = "\\" /\ Len(t) >= 2
    THEN (IF SubSeq(t, 2, 2) = "n" THEN "\n" ELSE SubSeq(t, 2, 2))
            \o unescape(SubSeq(t, 3, Len(t)))
    ELSE SubSeq(t, 1, 1) \o unescape(SubSeq(t, 2, Len(t)))

RECURSIVE write(_)
write(j) ==
    CASE j.t = "str" -> JStr(escape(j.s))
      [] j.t = "arr" -> JArr([i \in DOMAIN j.a |-> write(j.a[i])])
      [] j.t = "obj" ->
            JObj([key \in {escape(k) : k \in DOMAIN j.m} |->
                    write(j.m[CHOOSE k \in DOMAIN j.m : escape(k) = key])])
      [] OTHER -> j

json_text(doc) ==
    IF doc = Panicked
    THEN Panicked
    ELSE [success |-> doc.success, data |-> write(doc.data), error |-> write(doc.error)]

\* Reading a JSON value as a payload: null is the unit.
RECURSIVE Deserialize(_)
Deserialize(j) ==
    CASE j.t = "str" -> RStr(unescape(j.s))
      [] j.t = "num" -> RU16(j.n)
      [] j.t = "arr" -> RSeq([i \in DOMAIN j.a |-> Deserialize(j.a[i])])
      [] j.t = "obj" ->
            RMap([key \in {unescape(k) : k \in DOMAIN j.m} |->
                    Deserialize(j.m[CHOOSE k \in DOMAIN j.m : unescape(k) = key])])
      [] j.t = "null" -> RUnit

\* Reading the text as FfiResult<T>: a null field is an absent Option.
from_json(t) ==
    [success |-> t.success,
     data |-> IF t.data = JNull THEN None ELSE Some(Deserialize(t.data)),
     error |-> IF t.error = JNull THEN None ELSE Some(unescape(t.error.s))]

\* The envelopes written: payloads of every kind, nested up to MaxLen, and
\* error texts with and without characters that need escaping.
PayloadAtoms ==
    {RStr(""), RStr("math:90"), RStr("say \"hi\""), RStr("C:\\new"),
     RU16(0), RU16(65535), RUnit, RFail("key must be a string")}
PayloadInputs ==
    PayloadAtoms
      \cup {RSeq(q) : q \in UNION {[1..n -> PayloadAtoms] : n \in 0..MaxLen}}
      \cup {RMap(m) : m \in [{"a\"b"} -> PayloadAtoms]}
ErrorInputs ==
    {"", "bad app session", "No terms found", "line 1\nline 2", "\\\"", "C:\\new"}
Envelopes ==
    {FfiResult_success(x) : x \in PayloadInputs}
      \cup {FfiResult_error(msg) : msg \in ErrorInputs}

InitEnvelope ==
    /\ InitBoundary
    /\ InitNoThreads
    /\ env \in Envelopes
    /\ wire = Unwritten
    /\ back = Unread

WriteEnvelope ==
    /\ wire = Unwritten
    /\ wire' = json_text(to_json_string(env))
    /\ UNCHANGED <<bvars, cvars, env, back>>

ReadEnvelope ==
    /\ wire # Unwritten
    /\ wire # Panicked
    /\ back = Unread
    /\ back' = from_json(wire)
    /\ UNCHANGED <<bvars, cvars, env, wire>>

NextEnvelope == WriteEnvelope \/ ReadEnvelope

SpecEnvelope == InitEnvelope /\ [][NextEnvelope]_vars

\* C12 as stated: every envelope read back from its JSON text equals the
\* envelope written (same success flag, same payload, same error text).
C12_RoundTripAny == (back # Unread) => (back = env)

\* Whether a payload has a JSON form, and one that is not null.
Writable(x) == Serialize(x).ok /\ Serialize(x).v # JNull

\* C12: an error envelope, and a success envelope whose payload serializes
\* to a JSON value other than null, is read back from its JSON text exactly
\* as it was written: same success flag, same payload, same error text.
C12_RoundTrip ==
    (back # Unread /\ (env.success => Writable(env.data.v))) => (back = env)

\* A payload and an error text with quotes and backslashes came back intact.
C12_Witness ==
    /\ back = env
    /\ \/ env = FfiResult_success(RSeq(<<RStr("say \"hi\""), RStr("C:\\new")>>))
       \/ env = FfiResult_error("\\\"")

\* C13: to_json_string always yields a JSON text.  When serializing the
\* envelope fails, the text is that of the error envelope with success =
\* false, data = null and the error "JSON serialization failed: " followed
\* by the serializer's message; serializing that envelope never fails.
C13_SerializationNeverFails ==
    /\ \A msg \in ErrorInputs : SerializeFfiResult(FfiResult_error(msg)).ok
    /\ (wire # Unwritten) =>
          LET first == SerializeFfiResult(env) IN
          /\ wire # Panicked
          /\ wire.success \in BOOLEAN
          /\ first.ok => wire = json_text(first.v)
          /\ ~first.ok =>
                /\ SerializeFfiResult(
                     FfiResult_error("JSON serialization failed: " \o first.e)).ok
                /\ wire = [success |-> FALSE,
                           data |-> JNull,
                           error |-> JStr("JSON serialization failed: " \o first.e)]

\* A success envelope whose payload holds a value that cannot be written.
C13_Witness ==
    /\ env = FfiResult_success(RSeq(<<RStr("math:90"), RFail("key must be a string")>>))
    /\ wire = [success |-> FALSE,
               data |-> JNull,
               error |-> JStr("JSON serialization failed: key must be a string")]

\* C17: whatever the collaborator's steps answer (a failed SSO login, a
\* failed app login, a failed fetch, no terms), login, get_grades,
\* get_schedule and get_services_status return a non-null text that holds
\* an envelope, with the failure in its error field, and the process keeps
\* running.  (The runtime that cannot be built is not such a failure.)
C17_FailuresInEnvelope ==
    (/\ last.fn \in {"login", "get_grades", "get_schedule", "get_services_status"}
     /\ last.note # "runtime_build_failed") =>
        /\ last.returned
        /\ proc = "running"
        /\ last.ret # NULL
        /\ last.ret \in TextAddrs
        /\ texts[last.ret] = "live"
        /\ last.json.success \in BOOLEAN
        /\ (\E i \in DOMAIN last.calls : StepFailed(last.calls[i])) =>
              /\ ~last.json.success
              /\ last.json.data = JNull
              /\ last.json.error.t = "str"
              /\ Len(last.json.error.s) > 0

\* get_schedule found no term: an error envelope in a live text.
C17_Witness ==
    /\ last.fn = "get_schedule"
    /\ last.returned
    /\ Len(last.calls) = 2
    /\ last.calls[2].res.ok
    /\ last.json.error = JStr("No terms found")
    /\ texts[last.ret] = "live"
    /\ proc = "running"

ThreadCalls(session) ==
    {[fn |-> "login", run |-> login_async(session, Ok(info))] : info \in LoginInfos}
      \cup {[fn |-> "get_grades",
             run |-> get_grades_async(session, Ok("unit"),
                                      Err(CHOOSE e \in ErrorValues : TRUE))]}

InitThreads ==
    /\ InitBoundary
    /\ InitNoEnvelope
    /\ th = [t \in Threads |-> Idle]
    /\ clients = [t \in Threads |-> new_client(<<117, 49>>, <<112, 49>>)]
    /\ builds = 0

\* The thread enters an operation function.
BeginCall(t) ==
    /\ proc = "running"
    /\ th[t].pc = "idle"
    /\ \E c \in ThreadCalls(clients[t]) :
          th' = [th EXCEPT ![t] =
                   [pc |-> "force", fn |-> c.fn, run |-> c.run, k |-> 0,
                    stalled |-> FALSE, first |-> runtime # "ready", rt |-> 0,
                    returned |-> FALSE, out |-> NoJson]]
    /\ UNCHANGED <<bvars, pvars, clients, builds>>

\* Lazy::force with no once-guard: a thread that finds the runtime being
\* built builds one too.
Force_unguarded(t) ==
    /\ proc = "running"
    /\ th[t].pc = "force"
    /\ IF runtime = "ready"
       THEN /\ th' = [th EXCEPT ![t].pc = "await", ![t].rt = builds,
                               ![t].first = FALSE]
            /\ UNCHANGED runtime
       ELSE /\ runtime' = "building"
            /\ th' = [th EXCEPT ![t].pc = "build", ![t].first = FALSE]
    /\ UNCHANGED <<heap, texts, proc, ub, last, logins, pvars, clients, builds>>

\* RUNTIME is dereferenced: Lazy::force.
Force(t) ==
    /\ proc = "running"
    /\ th[t].pc = "force"
    /\ runtime # "building"
    /\ IF runtime = "ready"
       THEN /\ th' = [th EXCEPT ![t].pc = "await", ![t].rt = builds,
                               ![t].first = FALSE]
            /\ UNCHANGED runtime
       ELSE /\ runtime' = "building"
            /\ th' = [th EXCEPT ![t].pc = "build", ![t].first = FALSE]
    /\ UNCHANGED <<heap, texts, proc, ub, last, logins, pvars, clients, builds>>

\* The closure of the Lazy: Runtime::new().expect(...).
Build(t) ==
    /\ proc = "running"
    /\ th[t].pc = "build"
    /\ \E built \in BOOLEAN :
          IF built
          THEN /\ runtime' = "ready"
               /\ builds' = builds + 1
               /\ th' = [th EXCEPT ![t].pc = "await", ![t].rt = builds + 1]
               /\ UNCHANGED proc
          ELSE /\ proc' = "aborted"
               /\ UNCHANGED <<runtime, builds, th>>
    /\ UNCHANGED <<heap, texts, ub, last, logins, pvars, clients>>

\* Complete letting one block at a time make progress.
Complete_one_at_a_time(t) ==
    /\ proc = "running"
    /\ th[t].pc = "await"
    /\ \A u \in Threads \ {t} : th[u].pc # "await"
    /\ th[t].k < Len(th[t].run.calls)
    /\ ~th[t].stalled
    /\ th' = [th EXCEPT ![t].k = @ + 1]
    /\ clients' = IF th[t].k = 0
                  THEN [clients EXCEPT ![t] = th[t].run.session]
                  ELSE clients
    /\ UNCHANGED <<bvars, pvars, builds>>

\* The step the block awaits completes.  The first step of every block is
\* the login that may change the session.
Complete(t) ==
    /\ proc = "running"
    /\ th[t].pc = "await"
    /\ th[t].k < Len(th[t].run.calls)
    /\ ~th[t].stalled
    /\ th' = [th EXCEPT ![t].k = @ + 1]
    /\ clients' = IF th[t].k = 0
                  THEN [clients EXCEPT ![t] = th[t].run.session]
                  ELSE clients
    /\ UNCHANGED <<bvars, pvars, builds>>

\* The network stalls: the step the block awaits will never complete.
Stall(t) ==
    /\ proc = "running"
    /\ th[t].pc = "await"
    /\ th[t].k < Len(th[t].run.calls)
    /\ ~th[t].stalled
    /\ th' = [th EXCEPT ![t].stalled = TRUE]
    /\ UNCHANGED <<bvars, pvars, clients, builds>>

\* Return giving up on the step awaited.
Return_on_timeout(t) ==
    /\ proc = "running"
    /\ th[t].pc = "await"
    /\ th' = [th EXCEPT ![t].pc = "idle", ![t].returned = TRUE,
                        ![t].out = th[t].run.json]
    /\ UNCHANGED <<bvars, pvars, clients, builds>>

\* block_on returns when the block has run to its end; the function
\* returns the text.
Return(t) ==
    /\ proc = "running"
    /\ th[t].pc = "await"
    /\ th[t].k = Len(th[t].run.calls)
    /\ th' = [th EXCEPT ![t].pc = "idle", ![t].returned = TRUE,
                        ![t].out = th[t].run.json]
    /\ UNCHANGED <<bvars, pvars, clients, builds>>

Begins == \E t \in Threads : BeginCall(t)
Forces == \E t \in Threads : Force(t)
Builds == \E t \in Threads : Build(t)
Completes == \E t \in Threads : Complete(t)
Stalls == \E t \in Threads : Stall(t)
Returns == \E t \in Threads : Return(t)

NextThreads ==
    \/ Begins
    \/ Forces
    \/ Builds
    \/ Completes
    \/ Stalls
    \/ Returns

\* A thread inside a function keeps running; a step that does not stall
\* completes.
FairThreads ==
    \A t \in Threads :
       /\ WF_vars(Force(t))
       /\ WF_vars(Build(t))
       /\ WF_vars(Complete(t))
       /\ WF_vars(Return(t))

SpecThreads == InitThreads /\ [][NextThreads]_vars /\ FairThreads

\* C11: the runtime is built at most once, by one thread, inside the first
\* operation that needs it; while it is being built exactly one thread
\* builds it; every thread past RUNTIME, in any call, early or late, runs
\* on that one runtime.
C11_RuntimeBuiltOnce ==
    /\ builds <= 1
    /\ (runtime = "ready") <=> (builds = 1)
    /\ (runtime = "building") <=>
          (Cardinality({t \in Threads : th[t].pc = "build"}) = 1)
    /\ (runtime = "uninit") =>
          \A t \in Threads : th[t].pc \in {"idle", "force"} /\ ~th[t].returned
    /\ Cardinality({t \in Threads : th[t].pc = "build"}) <= 1
    /\ \A t \in Threads :
          (th[t].pc = "await" \/ th[t].returned) => th[t].rt = 1

\* Two threads reached RUNTIME before it was ready: one has built it and
\* runs on it, the other is about to use it.
C11_Witness ==
    \E t \in Threads, u \in Threads :
       /\ t # u
       /\ th[t].pc = "await"
       /\ th[t].rt = 1
       /\ th[u].pc = "force"
       /\ th[u].first
       /\ builds = 1

\* C18: an operation function returns only when every step of its block has
\* completed, and then with the block's envelope; a call whose awaited step
\* stalls stays blocked for ever (nothing times out); and a call none of
\* whose steps stalls returns (unless the runtime could not be built, which
\* ends the process).
C18_BlocksUntilDone ==
    /\ [](\A t \in Threads :
             th[t].returned =>
                /\ th[t].pc = "idle"
                /\ th[t].k = Len(th[t].run.calls)
                /\ ~th[t].stalled
                /\ th[t].out = th[t].run.json)
    /\ [][\A t \in Threads : th[t].stalled => th'[t] = th[t]]_vars
    /\ \A t \in Threads :
          (th[t].pc \in {"force", "build", "await"})
             ~> (th[t].pc = "idle" \/ th[t].stalled \/ proc = "aborted")

\* One thread has returned from a get_grades of two steps while another is
\* blocked on a step that stalled.
C18_Witness ==
    \E t \in Threads, u \in Threads :
       /\ th[t].returned
       /\ th[t].fn = "get_grades"
       /\ th[t].k = 2
       /\ th[u].pc = "await"
       /\ th[u].stalled

\* What a thread can do next on its own, whatever the other threads do:
\* pass RUNTIME unless the runtime is just being built, see its awaited
\* step complete unless that step stalls, return when its block is done.
CanProceed(t) ==
    /\ (th[t].pc = "force" /\ runtime # "building") => ENABLED Force(t)
    /\ (th[t].pc = "build") => ENABLED Build(t)
    /\ (th[t].pc = "await" /\ th[t].k < Len(th[t].run.calls) /\ ~th[t].stalled) =>
          ENABLED Complete(t)
    /\ (th[t].pc = "await" /\ th[t].k = Len(th[t].run.calls)) => ENABLED Return(t)

\* The session of a thread's client while the thread is in the call th[t]:
\* the one its own block leaves once the first step has completed.
OwnSession(t) ==
    (th[t].k >= 1) => (clients[t] = th[t].run.session)

\* C19: threads calling on clients of their own are in calls at the same
\* time, and no thread waits for another thread's call: while the process
\* runs each can take its next step, whether the others are blocked,
\* stalled or done.  The envelope a thread returns and the session of its
\* client are those of its own block; a step of one thread changes no other
\* thread and no other client.
C19_IndependentCalls ==
    /\ [](proc = "running" => \A t \in Threads : CanProceed(t))
    /\ [](\A t \in Threads :
             /\ OwnSession(t)
             /\ th[t].returned => th[t].out = th[t].run.json)
    /\ [][\A t \in Threads :
             (th'[t] # th[t] \/ clients'[t] # clients[t]) =>
                \A u \in Threads \ {t} : th'[u] = th[u] /\ clients'[u] = clients[u]]_vars

\* A thread has returned a success envelope while another thread, whose
\* call began earlier or later, is blocked on a stalled step.
C19_Witness ==
    \E t \in Threads, u \in Threads :
       /\ th[t].returned
       /\ th[t].fn = "login"
       /\ th[t].out.success
       /\ clients[t].sso
       /\ th[u].pc = "await"
       /\ th[u].fn = "get_grades"
       /\ th[u].stalled
       /\ ~clients[u].sso
====
